---- MODULE Spec2Model ----
(***************************************************************************)
(* Model of the audio-cue engine of fairytale-sound-effects                *)
(* (src/book_session.py, class BookSession).                               *)
(*                                                                         *)
(* Python strings are TLA+ strings (Len, SubSeq and \o act on them         *)
(* character by character).  The insertion-ordered dictionary _key_words   *)
(* is a sequence of records [key, value], value being the list of cues.    *)
(* A returned value v is <<v>>; None, or no return at all because an       *)
(* exception left the method, is <<>>.  raised names the exception that    *)
(* left the last operation ("" when none did).                             *)
(***************************************************************************)
EXTENDS Integers, Sequences, FiniteSets, TLC

VARIABLES key_words, sound_effect_keys, music_keys, location,
          op, arg, ret, raised, env, calls

vars == <<key_words, sound_effect_keys, music_keys, location,
          op, arg, ret, raised, env, calls>>

session == <<key_words, sound_effect_keys, music_keys, location>>

-----------------------------------------------------------------------------
(* Bounds of the exploration *)

\* texts are concatenations of at most MaxFrags fragments
MaxFrags == 2
\* one add_key_word call carries at most MaxEntries entries
MaxEntries == 2
\* at most MaxAdds cues are added to the seeded vocabulary in one session
MaxAdds == 2

Fragments == {"sad", "wolf"}

RECURSIVE TextsOf(_)
TextsOf(n) ==
    IF n = 0 THEN {""}
    ELSE LET shorter == TextsOf(n - 1)
         IN  shorter \cup {t \o f : t \in shorter, f \in Fragments}

Texts == TextsOf(MaxFrags)

\* "Fire" is a seeded category, "Wolf" and "Pig" are unknown to the seed
Entries == {<<"Fire", "wolf">>, <<"Wolf", "wolf">>, <<"Wolf", "sad">>,
            <<"Pig", "sad">>}

RECURSIVE EntryListsOf(_)
EntryListsOf(n) ==
    IF n = 0 THEN {<<>>}
    ELSE LET shorter == EntryListsOf(n - 1)
         IN  shorter \cup {Append(l, e) : l \in shorter, e \in Entries}

EntryLists == EntryListsOf(MaxEntries)

\* What the environment answers during one call: whether the category
\* directory exists, what os.listdir finds in it, and where the mixer
\* faults (nowhere, in load, in play).
Envs == {[exists |-> FALSE, files |-> {}, fault |-> "none"],
         [exists |-> TRUE, files |-> {".DS_Store"}, fault |-> "none"],
         [exists |-> TRUE, files |-> {".DS_Store", "a.wav", "b.wav"},
          fault |-> "none"],
         [exists |-> TRUE, files |-> {"a.wav"}, fault |-> "load"],
         [exists |-> TRUE, files |-> {"a.wav"}, fault |-> "play"]}
NoEnv == [exists |-> FALSE, files |-> {}, fault |-> "none"]

-----------------------------------------------------------------------------
(* Helpers *)

Range(s) == {s[i] : i \in 1..Len(s)}
None == <<>>
Some(v) == <<v>>
Keys(kw) == {kw[i].key : i \in 1..Len(kw)}

\* Python's "word in text" on two strings: contiguous, case-sensitive
Contains(word, text) ==
    \E i \in 0..(Len(text) - Len(word)) :
        SubSeq(text, i + 1, i + Len(word)) = word

-----------------------------------------------------------------------------
(* The state after BookSession() *)

SeedKeyWords ==
    << [key |-> "Beginning", value |-> <<"once upon a time", "happily ever after">>],
       [key |-> "Huff",      value |-> <<"huffed", "huff", "hoff">>],
       [key |-> "Fire",      value |-> <<"fire">>],
       [key |-> "Footsteps", value |-> <<"running", "ran", "walk", "walking">>],
       [key |-> "Laughter",  value |-> <<"laugh">>],
       [key |-> "Sad",       value |-> <<"sad">>],
       [key |-> "Horse",     value |-> <<"horse">>],
       [key |-> "Clock",     value |-> <<"dong">>],
       [key |-> "Knock",     value |-> <<"knock", "knocked">>] >>

SeedSoundEffectKeys ==
    <<"Huff", "Fire", "Footsteps", "Laughter", "Horse", "Clock", "Knock">>

SeedMusicKeys == <<"Beginning", "Sad">>

RECURSIVE CueCount(_)
CueCount(kw) ==
    IF kw = <<>> THEN 0 ELSE Len(Head(kw).value) + CueCount(Tail(kw))

\* category names handed to find_audio_location
LookupKeys == {"Fire", "Sad", "Wolf", "Dragon"}

Init ==
    /\ key_words = SeedKeyWords
    /\ sound_effect_keys = SeedSoundEffectKeys
    /\ music_keys = SeedMusicKeys
    /\ location = <<>>
    /\ op = "__init__"
    /\ arg = <<>>
    /\ ret = None
    /\ raised = ""
    /\ env = NoEnv
    /\ calls = <<>>

-----------------------------------------------------------------------------
(* check_for_key_word *)

RECURSIVE scan_words(_, _, _)
scan_words(value, j, text) ==
    IF j > Len(value) THEN FALSE
    ELSE IF Contains(value[j], text) THEN TRUE
    ELSE scan_words(value, j + 1, text)

\* variant: the loop falls through to "return key" instead of "return None"
RECURSIVE scan_items_fallthrough(_, _, _)
scan_items_fallthrough(kw, i, text) ==
    IF i > Len(kw) THEN (IF Len(kw) > 0 THEN Some(kw[Len(kw)].key) ELSE None)
    ELSE IF scan_words(kw[i].value, 1, text) THEN Some(kw[i].key)
    ELSE scan_items_fallthrough(kw, i + 1, text)

RECURSIVE scan_items(_, _, _)
scan_items(kw, i, text) ==
    IF i > Len(kw) THEN None
    ELSE IF scan_words(kw[i].value, 1, text) THEN Some(kw[i].key)
    ELSE scan_items(kw, i + 1, text)

\* variant: the categories are scanned from the last registered to the first
RECURSIVE scan_items_reversed(_, _, _)
scan_items_reversed(kw, i, text) ==
    IF i < 1 THEN None
    ELSE IF scan_words(kw[i].value, 1, text) THEN Some(kw[i].key)
    ELSE scan_items_reversed(kw, i - 1, text)

check_for_key_word_reversed(kw, text) == scan_items_reversed(kw, Len(kw), text)

check_for_key_word(kw, text) == scan_items(kw, 1, text)

CheckForKeyWord ==
    \E text \in Texts :
        /\ op' = "check_for_key_word"
        /\ arg' = text
        /\ ret' = check_for_key_word(key_words, text)
        /\ raised' = ""
        /\ env' = NoEnv
        /\ calls' = <<>>
        /\ UNCHANGED session

-----------------------------------------------------------------------------
(* find_audio_location *)

\* variant: the class is decided by membership in the music list
find_audio_location_by_music(sek, key) ==
    LET location0 == <<>>
        location1 == IF key \in Range(music_keys)
                     THEN location0 \o <<"Music">>
                     ELSE location0 \o <<"Sound_Effects">>
    IN  location1 \o <<key>>

\* variant: the nested folder is never appended
find_audio_location_no_key(sek, key) ==
    LET location0 == <<>>
    IN  IF key \in Range(sek)
        THEN location0 \o <<"Sound_Effects">>
        ELSE location0 \o <<"Music">>

find_audio_location(sek, key) ==
    LET location0 == <<>>
        location1 == IF key \in Range(sek)
                     THEN location0 \o <<"Sound_Effects">>
                     ELSE location0 \o <<"Music">>
    IN  location1 \o <<key>>

FindAudioLocation ==
    \E key \in LookupKeys :
        /\ location' = find_audio_location(sound_effect_keys, key)
        /\ op' = "find_audio_location"
        /\ arg' = key
        /\ ret' = None
        /\ raised' = ""
        /\ env' = NoEnv
        /\ calls' = <<>>
        /\ UNCHANGED <<key_words, sound_effect_keys, music_keys>>

-----------------------------------------------------------------------------
(* getters *)

GetLocation ==
    /\ op' = "get_location"
    /\ arg' = <<>>
    /\ ret' = Some(location)
    /\ raised' = ""
    /\ env' = NoEnv
    /\ calls' = <<>>
    /\ UNCHANGED session

-----------------------------------------------------------------------------
(* pick_random_audio and play_audio                                        *)
(* The directory listing and the behaviour of the mixer are answers of the *)
(* environment, drawn anew at each call.  Each operator yields the set of  *)
(* outcomes the call can have: random.choice may pick any listed file.     *)

Path(loc) == "Audio/" \o loc[1] \o "/" \o loc[2] \o "/"

pick_random_audio(loc, dir) ==
    IF Len(loc) < 2
    THEN \* self._location[0] on a list that is too short
         {[raised |-> "IndexError", file |-> "", calls |-> <<>>]}
    ELSE IF ~dir.exists
    THEN {[raised |-> "FileNotFoundError", file |-> "",
           calls |-> <<"listdir " \o Path(loc)>>]}
    ELSE LET all_files == dir.files \ {".DS_Store"}
         IN  IF all_files = {}
             THEN \* random.choice of an empty list
                  {[raised |-> "IndexError", file |-> "",
                    calls |-> <<"listdir " \o Path(loc)>>]}
             ELSE {[raised |-> "", file |-> f,
                    calls |-> <<"listdir " \o Path(loc)>>] : f \in all_files}

play_audio(loc, dir, fault) ==
    {IF p.raised # ""
     THEN [ret |-> None, raised |-> p.raised, calls |-> p.calls]
     ELSE LET load == "load " \o Path(loc) \o p.file
          IN  IF fault = "load"
              THEN \* pygame.mixer.music.load is outside the try block
                   [ret |-> None, raised |-> "pygame.error",
                    calls |-> p.calls \o <<load>>]
              ELSE IF fault = "play"
              THEN [ret |-> Some(FALSE), raised |-> "",
                    calls |-> p.calls \o <<load, "play", "print">>]
              ELSE [ret |-> Some(TRUE), raised |-> "",
                    calls |-> p.calls \o <<load, "play", "sleep 6">>]
     : p \in pick_random_audio(loc, dir)}

PlayAudio ==
    \E e \in Envs :
        \E out \in play_audio(location, e, e.fault) :
            /\ op' = "play_audio"
            /\ arg' = <<>>
            /\ ret' = out.ret
            /\ raised' = out.raised
            /\ env' = e
            /\ calls' = out.calls
            /\ UNCHANGED session

-----------------------------------------------------------------------------
(* add_key_word *)

\* variant: a new category starts with an empty list
add_one_entry_empty_list(kw, key, word) ==
    IF key \in Keys(kw)
    THEN [i \in 1..Len(kw) |->
            IF kw[i].key = key
            THEN [kw[i] EXCEPT !.value = Append(@, word)]
            ELSE kw[i]]
    ELSE Append(kw, [key |-> key, value |-> <<>>])

\* variant: a new category stores element 0 of the entry as its cue
add_one_entry_key_as_word(kw, key, word) ==
    IF key \in Keys(kw)
    THEN [i \in 1..Len(kw) |->
            IF kw[i].key = key
            THEN [kw[i] EXCEPT !.value = Append(@, word)]
            ELSE kw[i]]
    ELSE Append(kw, [key |-> key, value |-> <<key>>])

\* variant: an existing category gets a fresh list instead of an append
add_one_entry_replace(kw, key, word) ==
    IF key \in Keys(kw)
    THEN [i \in 1..Len(kw) |->
            IF kw[i].key = key
            THEN [kw[i] EXCEPT !.value = <<word>>]
            ELSE kw[i]]
    ELSE Append(kw, [key |-> key, value |-> <<word>>])

add_one_entry(kw, key, word) ==
    IF key \in Keys(kw)
    THEN [i \in 1..Len(kw) |->
            IF kw[i].key = key
            THEN [kw[i] EXCEPT !.value = Append(@, word)]
            ELSE kw[i]]
    ELSE Append(kw, [key |-> key, value |-> <<word>>])

RECURSIVE add_key_word(_, _)
add_key_word(kw, key_to_word_list) ==
    IF key_to_word_list = <<>> THEN kw
    ELSE LET key_and_word_group == Head(key_to_word_list)
         IN  add_key_word(add_one_entry(kw, key_and_word_group[1],
                                        key_and_word_group[2]),
                          Tail(key_to_word_list))

AddKeyWord ==
    \E key_to_word_list \in EntryLists :
        /\ CueCount(key_words) + Len(key_to_word_list)
              <= CueCount(SeedKeyWords) + MaxAdds
        /\ key_words' = add_key_word(key_words, key_to_word_list)
        /\ op' = "add_key_word"
        /\ arg' = key_to_word_list
        /\ ret' = Some(key_words')
        /\ raised' = ""
        /\ env' = NoEnv
        /\ calls' = <<>>
        /\ UNCHANGED <<sound_effect_keys, music_keys, location>>

-----------------------------------------------------------------------------
(* handleUtterance: detect, resolve, select and play, in this order; a     *)
(* failure of the last step is reported as false.                          *)

HandleUtterance ==
    \E text \in Texts :
        LET key == check_for_key_word(key_words, text)
        IN  /\ op' = "handleUtterance"
            /\ arg' = text
            /\ raised' = ""
            /\ IF key = None
               THEN /\ ret' = Some(FALSE)
                    /\ env' = NoEnv
                    /\ calls' = <<>>
                    /\ UNCHANGED session
               ELSE /\ location' = find_audio_location(sound_effect_keys,
                                                       key[1])
                    /\ \E e \in Envs :
                          \E out \in play_audio(location', e, e.fault) :
                             /\ ret' = IF out.raised # "" THEN Some(FALSE)
                                       ELSE out.ret
                             /\ calls' = out.calls
                             /\ env' = e
                    /\ UNCHANGED <<key_words, sound_effect_keys, music_keys>>

-----------------------------------------------------------------------------

Next ==
    \/ CheckForKeyWord
    \/ FindAudioLocation
    \/ GetLocation
    \/ PlayAudio
    \/ AddKeyWord
    \/ HandleUtterance

Spec == Init /\ [][Next]_vars

-----------------------------------------------------------------------------
(* Properties *)

\* positions, in scan order, of the categories owning a cue found in text
Matching(kw, text) ==
    {i \in 1..Len(kw) :
        \E j \in 1..Len(kw[i].value) : Contains(kw[i].value[j], text)}

Min(S) == CHOOSE m \in S : \A n \in S : m <= n

\* first position at which word occurs in text (0-based)
FirstPos(word, text) ==
    Min({i \in 0..(Len(text) - Len(word)) :
            SubSeq(text, i + 1, i + Len(word)) = word})

\* C1: check_for_key_word returns the first category, in registration
\* order, that owns a cue occurring in the text; so when categories A and B
\* both match and A was registered before B, the result is A or a matching
\* category registered before A, wherever the cues stand in the text.
C1_FirstRegisteredWins ==
    op = "check_for_key_word" =>
        LET M == Matching(key_words, arg)
        IN  /\ M # {} => ret = Some(key_words[Min(M)].key)
            /\ \A a \in M, b \in M :
                  a < b =>
                     \E c \in 1..a : c \in M /\ ret = Some(key_words[c].key)

\* a text where the cue of the later-registered category stands first
C1_Witness ==
    /\ op = "check_for_key_word"
    /\ \E a \in Matching(key_words, arg), b \in Matching(key_words, arg) :
          /\ a < b
          /\ ret = Some(key_words[a].key)
          /\ \E jb \in 1..Len(key_words[b].value) :
                /\ Contains(key_words[b].value[jb], arg)
                /\ \A ja \in 1..Len(key_words[a].value) :
                      Contains(key_words[a].value[ja], arg) =>
                         FirstPos(key_words[b].value[jb], arg)
                            < FirstPos(key_words[a].value[ja], arg)

\* C5: find_audio_location never fails and leaves the pair <<folder, C>>,
\* folder being "Sound_Effects" exactly when C is in the sound-effect list
\* at the time of the call and "Music" otherwise; every category that
\* add_key_word created resolves to "Music".
C5_ResolveTotal ==
    /\ op = "find_audio_location" =>
          /\ raised = ""
          /\ Len(location) = 2
          /\ location[1] \in {"Sound_Effects", "Music"}
          /\ location[1] = "Sound_Effects" <=> arg \in Range(sound_effect_keys)
          /\ location[2] = arg
    /\ \A i \in 1..Len(key_words) :
          key_words[i].key \notin Keys(SeedKeyWords) =>
             find_audio_location(sound_effect_keys, key_words[i].key)
                = <<"Music", key_words[i].key>>

\* a category created by add_key_word has just been resolved
C5_Witness ==
    /\ op = "find_audio_location"
    /\ arg \in Keys(key_words) \ Keys(SeedKeyWords)
    /\ location = <<"Music", arg>>

\* C7: every category of the vocabulary has at least one cue.
C7_NonEmptyPhraseLists ==
    \A i \in 1..Len(key_words) : Len(key_words[i].value) >= 1

\* add_key_word has created a category and extended a seeded one
C7_Witness ==
    /\ op = "add_key_word"
    /\ Len(key_words) > Len(SeedKeyWords)
    /\ \E i \in 1..Len(SeedKeyWords) :
          Len(key_words[i].value) > Len(SeedKeyWords[i].value)

\* C10: get_location always yields two strings, the first of them
\* "Sound_Effects" or "Music".
C10_LocationIsPair ==
    /\ Len(location) = 2
    /\ location[1] \in {"Sound_Effects", "Music"}

\* C3: when the category directory is missing, or holds nothing but
\* .DS_Store, play_audio returns False and no exception leaves it.
C3_SelectionFailureReturnsFalse ==
    (/\ op = "play_audio"
     /\ Len(location) = 2
     /\ ~env.exists \/ env.files \ {".DS_Store"} = {})
        => (raised = "" /\ ret = Some(FALSE))

\* C4: once a file is selected, play_audio returns True when the mixer does
\* not fault and False when it faults in load or in play; the fault never
\* leaves play_audio as an exception.
C4_SubsystemFaultReturnsFalse ==
    (/\ op = "play_audio"
     /\ Len(location) = 2
     /\ env.exists
     /\ env.files \ {".DS_Store"} # {})
        => /\ raised = ""
           /\ env.fault = "none" => ret = Some(TRUE)
           /\ env.fault # "none" => ret = Some(FALSE)

\* C2 as stated: after add_key_word([[C, w]]) with C unknown, every text
\* containing w is detected as C.
C2_AddedCueAlwaysDetected ==
    [][(/\ op' = "add_key_word"
        /\ Len(arg') = 1
        /\ arg'[1][1] \notin Keys(key_words))
          => \A text \in Texts :
                Contains(arg'[1][2], text) =>
                   check_for_key_word(key_words', text) = Some(arg'[1][1])]_vars

\* C2 amended: after add_key_word([[C, w]]) with C unknown, every text that
\* contains w and no cue of a category registered before the call is
\* detected as C.
C2_AddedCueDetectedUnlessShadowed ==
    [][(/\ op' = "add_key_word"
        /\ Len(arg') = 1
        /\ arg'[1][1] \notin Keys(key_words))
          => \A text \in Texts :
                (Contains(arg'[1][2], text) /\ Matching(key_words, text) = {})
                   => check_for_key_word(key_words', text) = Some(arg'[1][1])]_vars

\* a one-entry call has just created the last category, and some text
\* containing its cue is matched by no other category
C2_Witness ==
    /\ op = "add_key_word"
    /\ Len(arg) = 1
    /\ key_words[Len(key_words)] = [key |-> arg[1][1], value |-> <<arg[1][2]>>]
    /\ \E text \in Texts :
          /\ Contains(arg[1][2], text)
          /\ Matching(key_words, text) = {Len(key_words)}
          /\ check_for_key_word(key_words, text) = Some(arg[1][1])

\* C6: a text containing no registered cue is detected as None, handling it
\* returns False without any listing, load or play call, and detection
\* leaves the vocabulary, the class lists and the location as they were.
C6_NoCueNoEffect ==
    [][/\ op' = "check_for_key_word" => UNCHANGED session
       /\ (op' = "check_for_key_word" /\ Matching(key_words, arg') = {})
             => ret' = None
       /\ (op' = "handleUtterance" /\ Matching(key_words, arg') = {})
             => (ret' = Some(FALSE) /\ calls' = <<>> /\ raised' = "")]_vars

\* a non-empty utterance without any cue has just been handled
C6_Witness ==
    /\ op = "handleUtterance"
    /\ Len(arg) > 0
    /\ Matching(key_words, arg) = {}
    /\ ret = Some(FALSE)
    /\ calls = <<>>

\* the cues that entries carry for key, in input order
WordsFor(entries, key) ==
    LET sel == SelectSeq(entries, LAMBDA e : e[1] = key)
    IN  [i \in 1..Len(sel) |-> sel[i][2]]

FirstEntry(entries, key) ==
    Min({j \in 1..Len(entries) : entries[j][1] = key})

\* C8: add_key_word only extends the vocabulary.  A category that existed
\* keeps its position and its cues and gets the cues of its entries
\* appended in input order; the unknown categories are created after the
\* existing ones, in the order of their first entry, with the cues of their
\* entries in input order; the class lists and the location do not change.
C8_AddOnlyExtends ==
    [][op' = "add_key_word" =>
         LET old == key_words
             new == key_words'
             entries == arg'
             n == Len(key_words)
         IN  /\ Len(new) >= n
             /\ \A i \in 1..n :
                   /\ new[i].key = old[i].key
                   /\ new[i].value = old[i].value \o WordsFor(entries, old[i].key)
             /\ \A i \in (n + 1)..Len(new) :
                   /\ new[i].value = WordsFor(entries, new[i].key)
                   /\ Len(new[i].value) >= 1
             /\ {new[i].key : i \in (n + 1)..Len(new)}
                   = {entries[j][1] : j \in 1..Len(entries)} \ Keys(old)
             /\ \A i \in (n + 1)..Len(new), k \in (n + 1)..Len(new) :
                   i < k => /\ new[i].key # new[k].key
                            /\ FirstEntry(entries, new[i].key)
                                  < FirstEntry(entries, new[k].key)
             /\ UNCHANGED <<sound_effect_keys, music_keys, location>>]_vars

\* one call has appended to a seeded category and then created a category
C8_Witness ==
    /\ op = "add_key_word"
    /\ arg = << <<"Fire", "wolf">>, <<"Wolf", "sad">> >>
    /\ key_words[3] = [key |-> "Fire", value |-> <<"fire", "wolf">>]
    /\ key_words[Len(key_words)] = [key |-> "Wolf", value |-> <<"sad">>]

\* the location that the category detected in text resolves to
Resolved(kw, sek, text) ==
    LET k == kw[Min(Matching(kw, text))].key
    IN  <<IF k \in Range(sek) THEN "Sound_Effects" ELSE "Music", k>>

\* C9 as stated: after an utterance handled with result True the location
\* is the resolved one, after one handled with result False it is the
\* location from before the utterance.
C9_StoredOnlyOnSuccess ==
    [][op' = "handleUtterance" =>
         /\ ret' = Some(TRUE) =>
               location' = Resolved(key_words, sound_effect_keys, arg')
         /\ ret' = Some(FALSE) => location' = location]_vars

\* C9 amended: the location is stored when the category is resolved, before
\* selection and playback.  After an utterance in which a category was
\* detected the location is the resolved one, whether the result is True or
\* False; after an utterance without any cue it is the one from before.
C9_StoredAtResolution ==
    [][op' = "handleUtterance" =>
         IF Matching(key_words, arg') = {}
         THEN location' = location
         ELSE location' = Resolved(key_words, sound_effect_keys, arg')]_vars

\* an utterance with a cue was handled, playback failed, and the location
\* is the one that was resolved for it
C9_Witness ==
    /\ op = "handleUtterance"
    /\ Matching(key_words, arg) # {}
    /\ ret = Some(FALSE)
    /\ env.fault = "play"
    /\ location = Resolved(key_words, sound_effect_keys, arg)

====
